---- MODULE Spec2Model ----
(***************************************************************************)
(* Model of fix_vial_shot_distribution.py: the reconciliation job that     *)
(* scans a DynamoDB table, recomputes each injection's vial from its       *)
(* timestamp and rewrites the vialId of the injections that differ.        *)
(*                                                                         *)
(* Strings are sequences of character codes (ASCII), so that Python's      *)
(* string comparison, slicing and the `in` substring test are computed as  *)
(* Python computes them.  A Python value is a record [ty, v]: ty is the    *)
(* Python type ("str", "float", "None") and v a sequence (the characters   *)
(* of a str, the one number of a float, empty for None).  A DynamoDB wire  *)
(* value is a record [t, v]: t is the type tag ("S", "N", "NULL") and v    *)
(* the characters of the payload.                                          *)
(***************************************************************************)
EXTENDS Integers, Sequences, FiniteSets, TLC

\* ------------------------------------------------------------------ bounds
\* Number of injection records in the table.
NumInj == 2
\* Largest number of table entries one scan page evaluates.
PageMax == 2
\* Number of invocations of main() in one behaviour.
MaxRuns == 2
\* The policy is exercised on the years 2025 - YearSpan .. 2025 + YearSpan.
YearSpan == 1

\* ----------------------------------------------------------- string data
\* "vial_20240805_1"
vial_20240805_1 == <<118, 105, 97, 108, 95, 50, 48, 50, 52, 48, 56, 48, 53, 95, 49>>
\* "vial_20240805_2"
vial_20240805_2 == <<118, 105, 97, 108, 95, 50, 48, 50, 52, 48, 56, 48, 53, 95, 50>>
\* "vial_20241029_1"
vial_20241029_1 == <<118, 105, 97, 108, 95, 50, 48, 50, 52, 49, 48, 50, 57, 95, 49>>
\* "vial_20241029_2"
vial_20241029_2 == <<118, 105, 97, 108, 95, 50, 48, 50, 52, 49, 48, 50, 57, 95, 50>>
\* "vial_20241029_3"
vial_20241029_3 == <<118, 105, 97, 108, 95, 50, 48, 50, 52, 49, 48, 50, 57, 95, 51>>
\* "vial_20241029_4"
vial_20241029_4 == <<118, 105, 97, 108, 95, 50, 48, 50, 52, 49, 48, 50, 57, 95, 52>>
\* '2025-09-13', the literal of line 100
Boundary1 == <<50, 48, 50, 53, 45, 48, 57, 45, 49, 51>>
\* '2025-10-29', the literal of line 103
Boundary2 == <<50, 48, 50, 53, 45, 49, 48, 45, 50, 57>>

\* Vials that should NEVER have shots (dry stock)
DRY_STOCK_VIALS == <<vial_20241029_2, vial_20241029_3, vial_20241029_4>>

\* ------------------------------------------------------- Python values
None == [ty |-> "None", v |-> <<>>]
PyStr(s) == [ty |-> "str", v |-> s]
PyFloat(n) == [ty |-> "float", v |-> <<n>>]

\* Python truthiness: None, '' and 0.0 are falsy.
Truthy(x) ==
    CASE x.ty = "None" -> FALSE
      [] x.ty = "str" -> x.v # <<>>
      [] OTHER -> x.v # <<0>>

Min(a, b) == IF a < b THEN a ELSE b

\* s[:n] of a str
Slice(s, n) == SubSeq(s, 1, Min(n, Len(s)))

\* a < b for two str: the first differing character decides, and a proper
\* prefix is smaller.
RECURSIVE StrLess(_, _)
StrLess(a, b) ==
    IF b = <<>> THEN FALSE
    ELSE IF a = <<>> THEN TRUE
    ELSE IF Head(a) # Head(b) THEN Head(a) < Head(b)
    ELSE StrLess(Tail(a), Tail(b))

\* sub in s for two str
StrContains(s, sub) ==
    \E i \in 1..(Len(s) - Len(sub) + 1) : SubSeq(s, i, i + Len(sub) - 1) = sub

\* The integer whose decimal digits are the characters of s (float(value['N'])
\* on the whole-number payloads the table holds).
RECURSIVE DigitsValue(_)
DigitsValue(s) ==
    IF s = <<>> THEN 0
    ELSE 10 * DigitsValue(SubSeq(s, 1, Len(s) - 1)) + (s[Len(s)] - 48)

\* --------------------------------------------------------- marshalling
parse_dynamo_value(value) ==
    CASE value.t = "S" -> PyStr(value.v)
      [] value.t = "N" -> PyFloat(DigitsValue(value.v))
      [] value.t = "NULL" -> None
      [] OTHER -> PyStr(value.v)

format_dynamo_value(value) ==
    CASE value.ty = "None" -> [t |-> "NULL", v |-> <<>>]
      [] value.ty = "str" -> [t |-> "S", v |-> value.v]
      [] OTHER -> [t |-> "N", v |-> value.v]

parse_item(item) == [k \in DOMAIN item |-> parse_dynamo_value(item[k])]

\* dict.get(key, default)
Get(d, k, default) == IF k \in DOMAIN d THEN d[k] ELSE default

\* ------------------------------------------------------ assignment policy
\* Mutant of get_correct_vial_for_date: the first boundary is inclusive-right.
get_correct_vial_inclusive_right(date_str) ==
    IF ~Truthy(date_str) THEN None
    ELSE LET date_prefix == Slice(date_str.v, 10) IN
         IF StrLess(date_prefix, Boundary1) \/ date_prefix = Boundary1
           THEN PyStr(vial_20240805_1)
         ELSE IF StrLess(date_prefix, Boundary2) THEN PyStr(vial_20240805_2)
         ELSE PyStr(vial_20241029_1)

\* Mutant of get_correct_vial_for_date: the last branch names a dry-stock vial.
get_correct_vial_dry_typo(date_str) ==
    IF ~Truthy(date_str) THEN None
    ELSE LET date_prefix == Slice(date_str.v, 10) IN
         IF StrLess(date_prefix, Boundary1) THEN PyStr(vial_20240805_1)
         ELSE IF StrLess(date_prefix, Boundary2) THEN PyStr(vial_20240805_2)
         ELSE PyStr(vial_20241029_2)

\* Lines 83-108.  The argument is None or a str: main() ends at line 178 on a
\* truthy timestamp of another type before it calls this.
get_correct_vial_for_date(date_str) ==
    IF ~Truthy(date_str) THEN None
    ELSE LET date_prefix == Slice(date_str.v, 10) IN
         IF StrLess(date_prefix, Boundary1) THEN PyStr(vial_20240805_1)
         ELSE IF StrLess(date_prefix, Boundary2) THEN PyStr(vial_20240805_2)
         ELSE PyStr(vial_20241029_1)

\* ------------------------------------------------------------ the table
\* 'INJECTION' and 'VIAL', the entityType values main() scans for
INJECTION == <<73, 78, 74, 69, 67, 84, 73, 79, 78>>
VIAL == <<86, 73, 65, 76>>
\* 'NULL', the text main() records for a missing current vial (line 215)
NULLText == <<78, 85, 76, 76>>

S(s) == [t |-> "S", v |-> s]
Absent == [t |-> "absent", v |-> <<>>]

\* The key of injection i ("U", "I<i>") and of the vial record of vial id
\* ("U", "V<id>").
InjKey(i) == [PK |-> S(<<85>>), SK |-> S(<<73, 48 + i>>)]
VialKey(id) == [PK |-> S(<<85>>), SK |-> S(<<86>> \o id)]

\* The vial records of the table: one active vial, one dry-stock vial.
VialRecords == <<vial_20240805_1, vial_20241029_3>>

\* The order in which a scan walks the table: a vial record, the injections,
\* a vial record.
TableOrder ==
    <<VialKey(VialRecords[1])>> \o [i \in 1..NumInj |-> InjKey(i)]
        \o <<VialKey(VialRecords[2])>>

\* The timestamp attribute of an injection record: absent, NULL, a number,
\* or a string ("2025-09-12T08:00", "2025-11-05T09:00", "garbage").
TimestampAttrs ==
    { Absent,
      [t |-> "NULL", v |-> <<>>],
      [t |-> "N", v |-> <<53>>],
      S(<<50, 48, 50, 53, 45, 48, 57, 45, 49, 50, 84, 48, 56, 58, 48, 48>>),
      S(<<50, 48, 50, 53, 45, 49, 49, 45, 48, 53, 84, 48, 57, 58, 48, 48>>),
      S(<<103, 97, 114, 98, 97, 103, 101>>) }

\* The vialId attribute of an injection record: absent, an active vial, a
\* dry-stock vial.
VialIdAttrs == { Absent, S(vial_20240805_1), S(vial_20241029_3) }

Attr(name, value) ==
    IF value = Absent THEN [k \in {} |-> Absent] ELSE (name :> value)

InjectionItem(i, ts, vial) ==
    [PK |-> InjKey(i).PK, SK |-> InjKey(i).SK, entityType |-> S(INJECTION),
     doseMg |-> [t |-> "N", v |-> <<53>>]]
        @@ Attr("timestamp", ts) @@ Attr("vialId", vial)

VialItem(id) ==
    [PK |-> VialKey(id).PK, SK |-> VialKey(id).SK, entityType |-> S(VIAL)]

VARIABLES
    store,              \* the table: key -> item
    dry_run,            \* args.dry_run
    pc,                 \* where main() is
    exc,                \* the exception main() ended with, "" if none
    ExclusiveStartKey,  \* scan_kwargs['ExclusiveStartKey'], as the number of
                        \* table entries evaluated so far; 0 when not set
    items,              \* scan_all_items: the items gathered so far
    injections,         \* main: the parsed injections
    vials,              \* main: the parsed vials
    changes,            \* main: the change-set
    expected,           \* main: the expected distribution
    idx,                \* the position of the apply loop in changes
    success_count,
    error_count,
    clock,              \* the reading of datetime.utcnow()
    update_calls,       \* history: the update_item calls of this run
    store0,             \* history: the table when this run started
    run,                \* the number of this invocation of main()
    prev,               \* history: how the previous invocation ended, and
                        \* (image) what one failure-free run leaves on the
                        \* table the first invocation found
    date_str,           \* policy harness: the argument
    result,             \* policy harness: what the call returned
    ext_write,          \* another client of the table: the write it has made
    pages               \* scan harness: the dynamodb.scan requests of the latest
                        \* scan_all_items call, each with its response

vars == <<store, dry_run, pc, exc, ExclusiveStartKey, items, injections, vials,
          changes, expected, idx, success_count, error_count, clock,
          update_calls, store0, run, prev, date_str, result, ext_write, pages>>

mainVars == <<store, dry_run, pc, exc, ExclusiveStartKey, items, injections,
              vials, changes, expected, idx, success_count, error_count, clock,
              update_calls, store0, run, prev, ext_write, pages>>

NoDict == [k \in {} |-> 0]

\* --------------------------------------------------- the record store
\* Mutant of update_item: the update also drops the dose.
update_item_touching_dose(table, Key, vialId, updatedAt) ==
    IF Key \in DOMAIN table
      THEN [table EXCEPT ![Key] =
              [k \in (DOMAIN @) \ {"doseMg"} |-> @[k]]
                  @@ ("vialId" :> vialId) @@ ("updatedAt" :> updatedAt)]
      ELSE table

\* dynamodb.update_item(Key, 'SET vialId = :vialId, updatedAt = :updatedAt'):
\* sets the two attributes of the item with that key, creating the item if the
\* table has none.
update_item(table, Key, vialId, updatedAt) ==
    IF Key \in DOMAIN table
      THEN [table EXCEPT ![Key] =
              ("vialId" :> vialId) @@ ("updatedAt" :> updatedAt) @@ @]
      ELSE (Key :> (("vialId" :> vialId) @@ ("updatedAt" :> updatedAt) @@ Key))
               @@ table

\* The Items of one scan response: the entries from..to of the table whose
\* entityType is entity_type, in table order.
PageItems(table, entity_type, from, to) ==
    LET keys == SelectSeq(SubSeq(TableOrder, from, to),
                          LAMBDA k : k \in DOMAIN table
                                     /\ "entityType" \in DOMAIN table[k]
                                     /\ table[k]["entityType"] = S(entity_type))
    IN [i \in 1..Len(keys) |-> table[keys[i]]]

\* datetime.utcnow().isoformat() + 'Z', as text that grows with the clock
utcnow_text(c) == <<84, 48 + c, 90>>

\* ------------------------------------------------------------ the planner
\* Lines 172-178: the report of the current distribution sorts each vial's
\* shots by timestamp and slices each timestamp; a truthy timestamp that is
\* not a str raises TypeError.
CurrentReportRaises(injs) ==
    \E i \in 1..Len(injs) :
        LET ts == Get(injs[i], "timestamp", None)
        IN Truthy(ts) /\ ts.ty # "str"

\* any(ds in str(current_vial) for ds in DRY_STOCK_VIALS)
IsDryStock(current_vial) ==
    \E d \in 1..Len(DRY_STOCK_VIALS) : StrContains(current_vial.v, DRY_STOCK_VIALS[d])

\* Mutant of needs_change: only an unassigned injection is changed.
needs_change_ignoring_dry(current_vial, correct_vial) ==
    current_vial = None

\* Lines 198-207
needs_change(current_vial, correct_vial) ==
    IF current_vial = None THEN TRUE
    ELSE IF IsDryStock(current_vial) THEN TRUE
    ELSE current_vial # correct_vial

\* Lines 210-217
ChangeRecord(inj, timestamp, current_vial, correct_vial) ==
    [PK |-> inj["PK"], SK |-> inj["SK"], timestamp |-> timestamp,
     doseMg |-> Get(inj, "doseMg", None),
     current_vial |-> IF Truthy(current_vial) THEN current_vial ELSE PyStr(NULLText),
     correct_vial |-> correct_vial]

\* Mutant of compute_changes: each record is put at the front of the list.
RECURSIVE compute_changes_prepending(_)
compute_changes_prepending(injs) ==
    IF injs = <<>> THEN <<>>
    ELSE LET inj == Head(injs)
             timestamp == Get(inj, "timestamp", PyStr(<<>>))
             current_vial == Get(inj, "vialId", None)
             correct_vial == get_correct_vial_for_date(timestamp)
         IN IF Truthy(correct_vial) /\ needs_change(current_vial, correct_vial)
              THEN compute_changes_prepending(Tail(injs))
                       \o <<ChangeRecord(inj, timestamp, current_vial, correct_vial)>>
              ELSE compute_changes_prepending(Tail(injs))

\* Lines 185-217: the change-set of a list of injections
RECURSIVE compute_changes(_)
compute_changes(injs) ==
    IF injs = <<>> THEN <<>>
    ELSE LET inj == Head(injs)
             timestamp == Get(inj, "timestamp", PyStr(<<>>))
             current_vial == Get(inj, "vialId", None)
             correct_vial == get_correct_vial_for_date(timestamp)
         IN IF ~Truthy(correct_vial) THEN compute_changes(Tail(injs))
            ELSE IF needs_change(current_vial, correct_vial)
              THEN <<ChangeRecord(inj, timestamp, current_vial, correct_vial)>>
                       \o compute_changes(Tail(injs))
            ELSE compute_changes(Tail(injs))

\* Mutant of compute_expected: the entry of a vial is made anew for each
\* injection, so every count is 1 and every sum the last dose.
compute_expected_reset(injs) ==
    LET vialOf(i) == get_correct_vial_for_date(Get(injs[i], "timestamp", PyStr(<<>>)))
        dose(i) == LET d == Get(injs[i], "doseMg", None)
                   IN IF Truthy(d) THEN d.v[1] ELSE 0
    IN [vial \in {vialOf(i) : i \in 1..Len(injs)} |->
           [count |-> 1,
            mg |-> dose(CHOOSE i \in 1..Len(injs) :
                          vialOf(i) = vial
                          /\ \A j \in 1..Len(injs) : vialOf(j) = vial => j <= i)]]

\* Lines 230-237: vial -> count and summed dose, over all injections
compute_expected(injs) ==
    LET vialOf(i) == get_correct_vial_for_date(Get(injs[i], "timestamp", PyStr(<<>>)))
        dose(i) == LET d == Get(injs[i], "doseMg", None)
                   IN IF Truthy(d) THEN d.v[1] ELSE 0
        RECURSIVE Sum(_, _)
        Sum(vial, i) ==
            IF i = 0 THEN 0
            ELSE Sum(vial, i - 1) + (IF vialOf(i) = vial THEN dose(i) ELSE 0)
    IN [vial \in {vialOf(i) : i \in 1..Len(injs)} |->
           [count |-> Cardinality({i \in 1..Len(injs) : vialOf(i) = vial}),
            mg |-> Sum(vial, Len(injs))]]

\* Line 239: sorted(expected.items()) compares the keys; None and a str do
\* not compare (TypeError).
SortedRaises(d) ==
    /\ None \in DOMAIN d
    /\ \E k \in DOMAIN d : k # None

\* History: the associations one run of main() without a failed update leaves
\* on a table: the policy's vial for an injection whose timestamp gives one,
\* the association it has for any other.
FailureFreeImage(table) ==
    [k \in {InjKey(i) : i \in 1..NumInj} |->
        LET item == parse_item(table[k])
            correct == get_correct_vial_for_date(Get(item, "timestamp", PyStr(<<>>)))
        IN IF Get(item, "timestamp", None).ty = "str" /\ Truthy(correct)
             THEN correct
             ELSE Get(item, "vialId", None)]

\* ------------------------------------------------------------- the runs
\* The locals of main() before its first statement.
StartOfMain ==
    /\ pc = "scan_injections"
    /\ exc = ""
    /\ ExclusiveStartKey = 0
    /\ items = <<>>
    /\ injections = <<>>
    /\ vials = <<>>
    /\ changes = <<>>
    /\ expected = NoDict
    /\ idx = 1
    /\ success_count = 0
    /\ error_count = 0
    /\ update_calls = <<>>

\* No other client has written.
NoExternalWrite == [done |-> FALSE, Key |-> InjKey(1), calls |-> 0]

PolicyIdle ==
    /\ date_str = None
    /\ result = [state |-> "idle", value |-> None]

Init ==
    /\ \E ts \in [1..NumInj -> TimestampAttrs], vial \in [1..NumInj -> VialIdAttrs] :
          store = [k \in {TableOrder[j] : j \in 1..Len(TableOrder)} |->
                     IF \E i \in 1..NumInj : k = InjKey(i)
                       THEN LET i == CHOOSE i \in 1..NumInj : k = InjKey(i)
                            IN InjectionItem(i, ts[i], vial[i])
                       ELSE LET j == CHOOSE j \in 1..Len(VialRecords) :
                                         k = VialKey(VialRecords[j])
                            IN VialItem(VialRecords[j])]
    /\ dry_run \in BOOLEAN
    /\ StartOfMain
    /\ clock = 0
    /\ store0 = store
    /\ run = 1
    /\ prev = [pc |-> "none", dry_run |-> TRUE, failed |-> {}, changed |-> {},
               failed_plan |-> {}, image |-> FailureFreeImage(store)]
    /\ PolicyIdle
    /\ ext_write = NoExternalWrite
    /\ pages = <<>>

Scanning == pc \in {"scan_injections", "scan_vials"}

entity_type == IF pc = "scan_injections" THEN INJECTION ELSE VIAL

\* Mutant of ScanStepMore: the page replaces what was gathered.
ScanStepMore_overwrite ==
    /\ Scanning
    /\ \E n \in 1..PageMax :
          /\ ExclusiveStartKey + n <= Len(TableOrder)
          /\ items' = PageItems(store, entity_type,
                                ExclusiveStartKey + 1, ExclusiveStartKey + n)
          /\ ExclusiveStartKey' = ExclusiveStartKey + n
    /\ UNCHANGED <<store, dry_run, pc, exc, injections, vials, changes, expected,
                   idx, success_count, error_count, clock, update_calls, store0,
                   run, prev, date_str, result, ext_write>>

\* One dynamodb.scan call that answers with a LastEvaluatedKey (lines 42-47):
\* the page evaluates the next n entries of the table; the store gives a
\* LastEvaluatedKey while entries remain, and may give one with the last entry.
ScanStepMore ==
    /\ Scanning
    /\ \E n \in 1..PageMax :
          /\ ExclusiveStartKey + n <= Len(TableOrder)
          /\ items' = items \o PageItems(store, entity_type,
                                         ExclusiveStartKey + 1, ExclusiveStartKey + n)
          /\ ExclusiveStartKey' = ExclusiveStartKey + n
    /\ UNCHANGED <<store, dry_run, pc, exc, injections, vials, changes, expected,
                   idx, success_count, error_count, clock, update_calls, store0,
                   run, prev, date_str, result, ext_write>>

ScanPageMore == ScanStepMore /\ UNCHANGED pages

\* One dynamodb.scan call that answers without a LastEvaluatedKey (lines 42-49):
\* the page evaluates the rest of the table; scan_all_items returns and main()
\* parses the items (lines 146-147, 152-153).
ScanStepLast ==
    /\ Scanning
    /\ Len(TableOrder) - ExclusiveStartKey <= PageMax
    /\ LET all == items \o PageItems(store, entity_type,
                                     ExclusiveStartKey + 1, Len(TableOrder))
           parsed == [i \in 1..Len(all) |-> parse_item(all[i])]
       IN IF pc = "scan_injections"
            THEN /\ injections' = parsed
                 /\ pc' = "scan_vials"
                 /\ UNCHANGED vials
            ELSE /\ vials' = parsed
                 /\ pc' = "plan"
                 /\ UNCHANGED injections
    /\ items' = <<>>
    /\ ExclusiveStartKey' = 0
    /\ UNCHANGED <<store, dry_run, exc, changes, expected, idx, success_count,
                   error_count, clock, update_calls, store0, run, prev,
                   date_str, result, ext_write>>

ScanPageLast == ScanStepLast /\ UNCHANGED pages

\* Mutant of ScanFail: the exception is swallowed and the scan hands back the
\* pages it has.
ScanFail_partial ==
    /\ Scanning
    /\ exc' = "scan"
    /\ LET parsed == [i \in 1..Len(items) |-> parse_item(items[i])]
       IN IF pc = "scan_injections"
            THEN injections' = parsed /\ pc' = "scan_vials" /\ UNCHANGED vials
            ELSE vials' = parsed /\ pc' = "plan" /\ UNCHANGED injections
    /\ items' = <<>>
    /\ ExclusiveStartKey' = 0
    /\ UNCHANGED <<store, dry_run, changes, expected, idx, success_count,
                   error_count, clock, update_calls, store0, run, prev,
                   date_str, result, ext_write, pages>>

\* dynamodb.scan raises: nothing catches it in scan_all_items or in main(), so
\* the frame of scan_all_items (items, scan_kwargs) is gone and main() ends.
ScanFail ==
    /\ Scanning
    /\ pc' = "raised"
    /\ exc' = "scan"
    /\ items' = <<>>
    /\ ExclusiveStartKey' = 0
    /\ UNCHANGED <<store, dry_run, injections, vials,
                   changes, expected, idx, success_count, error_count, clock,
                   update_calls, store0, run, prev, date_str, result, ext_write, pages>>

\* Lines 156-224: the report of the current distribution and the change-set.
Plan ==
    /\ pc = "plan"
    /\ IF CurrentReportRaises(injections)
         THEN /\ pc' = "raised"
              /\ exc' = "TypeError:178"
              /\ UNCHANGED changes
         ELSE /\ changes' = compute_changes(injections)
              /\ pc' = IF changes' = <<>> THEN "returned" ELSE "expected"
              /\ UNCHANGED exc
    /\ UNCHANGED <<store, dry_run, ExclusiveStartKey, items, injections, vials,
                   expected, idx, success_count, error_count, clock, update_calls, store0, run, prev, date_str, result, ext_write, pages>>

\* Lines 226-245: the expected distribution, and the end of a dry run.
ExpectedDistribution ==
    /\ pc = "expected"
    /\ expected' = compute_expected(injections)
    /\ IF SortedRaises(expected')
         THEN pc' = "raised" /\ exc' = "TypeError:239"
         ELSE /\ pc' = IF dry_run THEN "returned" ELSE "apply"
              /\ UNCHANGED exc
    /\ UNCHANGED <<store, dry_run, ExclusiveStartKey, items, injections, vials,
                   changes, idx, success_count, error_count, clock, update_calls, store0, run, prev, date_str, result, ext_write, pages>>

\* The arguments of the update_item call of lines 255-266 for one change.
UpdateKey(change) ==
    [PK |-> format_dynamo_value(change.PK), SK |-> format_dynamo_value(change.SK)]

\* Mutant of UpdateVialId: the previous association is written back.
UpdateVialId_previous(change) == format_dynamo_value(change.current_vial)

UpdateVialId(change) == format_dynamo_value(change.correct_vial)

UpdateCall(change, ok) ==
    [Key |-> UpdateKey(change), vialId |-> UpdateVialId(change),
     updatedAt |-> format_dynamo_value(PyStr(utcnow_text(clock))), ok |-> ok]

\* Mutant of ApplyOk: the update carries a condition, and writes only while
\* the record still has the association that was scanned.
ApplyOk_if_unchanged ==
    /\ pc = "apply"
    /\ idx <= Len(changes)
    /\ LET call == UpdateCall(changes[idx], TRUE)
           now == Get(parse_item(store[call.Key]), "vialId", None)
       IN /\ store' = IF (IF Truthy(now) THEN now ELSE PyStr(NULLText))
                             = changes[idx].current_vial
                         THEN update_item(store, call.Key, call.vialId, call.updatedAt)
                         ELSE store
          /\ update_calls' = Append(update_calls, call)
    /\ success_count' = success_count + 1
    /\ idx' = idx + 1
    /\ clock' = clock + 1
    /\ UNCHANGED <<dry_run, pc, exc, ExclusiveStartKey, items, injections, vials,
                   changes, expected, error_count, store0, run, prev,
                   date_str, result, ext_write, pages>>

\* Mutant of ApplyOk: the call succeeds on another table; this one is not
\* written.
ApplyOk_no_write ==
    /\ pc = "apply"
    /\ idx <= Len(changes)
    /\ update_calls' = Append(update_calls, UpdateCall(changes[idx], TRUE))
    /\ success_count' = success_count + 1
    /\ idx' = idx + 1
    /\ clock' = clock + 1
    /\ UNCHANGED <<store, dry_run, pc, exc, ExclusiveStartKey, items, injections,
                   vials, changes, expected, error_count, store0, run, prev,
                   date_str, result, ext_write, pages>>

\* Lines 252-268: one turn of the apply loop whose update_item call succeeds.
ApplyOk ==
    /\ pc = "apply"
    /\ idx <= Len(changes)
    /\ LET call == UpdateCall(changes[idx], TRUE)
       IN /\ store' = update_item(store, call.Key, call.vialId, call.updatedAt)
          /\ update_calls' = Append(update_calls, call)
    /\ success_count' = success_count + 1
    /\ idx' = idx + 1
    /\ clock' = clock + 1
    /\ UNCHANGED <<dry_run, pc, exc, ExclusiveStartKey, items, injections, vials,
                   changes, expected, error_count, store0, run, prev,
                   date_str, result, ext_write, pages>>

\* Mutant of ApplyFail: no except clause, the exception ends the run.
ApplyFail_abort ==
    /\ pc = "apply"
    /\ idx <= Len(changes)
    /\ update_calls' = Append(update_calls,
          [Key |-> [PK |-> format_dynamo_value(changes[idx].PK),
                    SK |-> format_dynamo_value(changes[idx].SK)],
           vialId |-> format_dynamo_value(changes[idx].correct_vial),
           updatedAt |-> format_dynamo_value(PyStr(utcnow_text(clock))),
           ok |-> FALSE])
    /\ pc' = "raised"
    /\ exc' = "update"
    /\ clock' = clock + 1
    /\ UNCHANGED <<store, dry_run, ExclusiveStartKey, items, injections, vials,
                   changes, expected, idx, success_count, error_count, store0,
                   run, prev, date_str, result, ext_write, pages>>

\* Lines 252-271: one turn of the apply loop whose update_item call raises;
\* the except clause counts it and the loop goes on.
ApplyFail ==
    /\ pc = "apply"
    /\ idx <= Len(changes)
    /\ update_calls' = Append(update_calls, UpdateCall(changes[idx], FALSE))
    /\ error_count' = error_count + 1
    /\ idx' = idx + 1
    /\ clock' = clock + 1
    /\ UNCHANGED <<store, dry_run, pc, exc, ExclusiveStartKey, items, injections,
                   vials, changes, expected, success_count, store0,
                   run, prev, date_str, result, ext_write, pages>>

\* Line 273: the loop is over, main() returns.
ApplyDone ==
    /\ pc = "apply"
    /\ idx > Len(changes)
    /\ pc' = "returned"
    /\ UNCHANGED <<store, dry_run, exc, ExclusiveStartKey, items, injections,
                   vials, changes, expected, idx, success_count, error_count,
                   clock, update_calls, store0, run, prev,
                   date_str, result, ext_write, pages>>

\* The key and the vial of each update_item call of this run that failed.
FailedPlan ==
    {[Key |-> update_calls[i].Key, vialId |-> update_calls[i].vialId] :
        i \in {j \in 1..Len(update_calls) : ~update_calls[j].ok}}

FailedKeys == {update_calls[i].Key : i \in {j \in 1..Len(update_calls) : ~update_calls[j].ok}}

ChangeKeys == {UpdateKey(changes[i]) : i \in 1..Len(changes)}

\* The script is invoked again, on the table the previous invocation left.
NextRun ==
    /\ pc \in {"returned", "raised"}
    /\ run < MaxRuns
    /\ run' = run + 1
    /\ prev' = [pc |-> pc, dry_run |-> dry_run, failed |-> FailedKeys,
                changed |-> ChangeKeys, failed_plan |-> FailedPlan,
                image |-> prev.image]
    /\ dry_run' \in BOOLEAN
    /\ store0' = store
    /\ pc' = "scan_injections"
    /\ exc' = ""
    /\ ExclusiveStartKey' = 0
    /\ items' = <<>>
    /\ injections' = <<>>
    /\ vials' = <<>>
    /\ changes' = <<>>
    /\ expected' = NoDict
    /\ idx' = 1
    /\ success_count' = 0
    /\ error_count' = 0
    /\ update_calls' = <<>>
    /\ UNCHANGED <<store, clock, date_str, result, ext_write, pages>>

Next ==
    \/ ScanPageMore
    \/ ScanPageLast
    \/ ScanFail
    \/ Plan
    \/ ExpectedDistribution
    \/ ApplyOk
    \/ ApplyFail
    \/ ApplyDone
    \/ NextRun

Spec == Init /\ [][Next]_vars

\* ------------------------------------------- scan_all_items, page by page
\* What one dynamodb.scan call was asked (lines 34-37, 46-47) and what it
\* answered (lines 43-45); LastEvaluatedKey is 0 for a response without one.
ScanExchange(LastEvaluatedKey) ==
    [entity_type |-> entity_type,
     ExclusiveStartKey |-> ExclusiveStartKey,
     Items |-> PageItems(store, entity_type, ExclusiveStartKey + 1,
                         IF LastEvaluatedKey = 0 THEN Len(TableOrder)
                                                 ELSE LastEvaluatedKey),
     LastEvaluatedKey |-> LastEvaluatedKey]

\* The exchanges of the scan_all_items call in progress: a request without
\* ExclusiveStartKey is the first of a call.
PagesOfCall == IF ExclusiveStartKey = 0 THEN <<>> ELSE pages

ScanPageMoreLogged ==
    /\ ScanStepMore
    /\ pages' = Append(PagesOfCall, ScanExchange(ExclusiveStartKey'))

ScanPageLastLogged ==
    /\ ScanStepLast
    /\ pages' = Append(PagesOfCall, ScanExchange(0))

NextScan ==
    \/ ScanPageMoreLogged
    \/ ScanPageLastLogged
    \/ ScanFail

SpecScan == Init /\ [][NextScan]_vars

\* --------------------------------------- a run beside another client
\* The association another client writes.
ExternalVialId == S(vial_20240805_2)

\* Another client of the table sets the association of one injection, once,
\* after main() has scanned the injections and before it returns.
ExternalWrite ==
    /\ ~ext_write.done
    /\ pc \in {"scan_vials", "plan", "expected", "apply"}
    /\ \E k \in {InjKey(i) : i \in 1..NumInj} :
          /\ store' = [store EXCEPT ![k] = ("vialId" :> ExternalVialId) @@ @]
          /\ ext_write' = [done |-> TRUE, Key |-> k, calls |-> Len(update_calls)]
    /\ UNCHANGED <<dry_run, pc, exc, ExclusiveStartKey, items, injections, vials,
                   changes, expected, idx, success_count, error_count, clock,
                   update_calls, store0, run, prev, date_str, result, pages>>

NextExt ==
    \/ ScanPageMore
    \/ ScanPageLast
    \/ ScanFail
    \/ Plan
    \/ ExpectedDistribution
    \/ ApplyOk
    \/ ApplyFail
    \/ ApplyDone
    \/ ExternalWrite

SpecExt == Init /\ [][NextExt]_vars

\* ----------------------------------------------- the policy on its own
\* YYYY-MM-DD, zero-padded, as isoformat() writes a date.
TwoDigits(n) == <<48 + (n \div 10), 48 + (n % 10)>>

FormatDate(y, m, d) ==
    <<48 + (y \div 1000), 48 + ((y \div 100) % 10), 48 + ((y \div 10) % 10),
      48 + (y % 10)>> \o <<45>> \o TwoDigits(m) \o <<45>> \o TwoDigits(d)

\* What follows the date in a timestamp: nothing, or "T08:00".
TimeSuffixes == { <<>>, <<84, 48, 56, 58, 48, 48>> }

\* Strings that are no timestamps: "garbage", "2025", "2025-9-13",
\* "2025/09/13", "12-09-2025T08:00".
MalformedTexts ==
    { <<103, 97, 114, 98, 97, 103, 101>>,
      <<50, 48, 50, 53>>,
      <<50, 48, 50, 53, 45, 57, 45, 49, 51>>,
      <<50, 48, 50, 53, 47, 48, 57, 47, 49, 51>>,
      <<49, 50, 45, 48, 57, 45, 50, 48, 50, 53, 84, 48, 56, 58, 48, 48>> }

\* The arguments get_correct_vial_for_date is called with: None, '', every
\* date of the years around 2025 with and without a time, and the strings
\* that are no timestamps.
PolicyInputs ==
    {None, PyStr(<<>>)}
        \cup {PyStr(FormatDate(y, m, d) \o sfx) :
                 y \in (2025 - YearSpan)..(2025 + YearSpan),
                 m \in 1..12, d \in 1..31, sfx \in TimeSuffixes}
        \cup {PyStr(t) : t \in MalformedTexts}

InitPolicy ==
    /\ date_str \in PolicyInputs
    /\ result = [state |-> "idle", value |-> None]
    /\ store = NoDict
    /\ dry_run = TRUE
    /\ StartOfMain
    /\ clock = 0
    /\ store0 = NoDict
    /\ run = 1
    /\ prev = [pc |-> "none", dry_run |-> TRUE, failed |-> {}, changed |-> {},
               failed_plan |-> {}, image |-> NoDict]
    /\ ext_write = NoExternalWrite
    /\ pages = <<>>

\* One call of get_correct_vial_for_date.
PolicyCall ==
    /\ result.state = "idle"
    /\ result' = [state |-> "returned", value |-> get_correct_vial_for_date(date_str)]
    /\ UNCHANGED <<date_str, mainVars>>

NextPolicy == PolicyCall

SpecPolicy == InitPolicy /\ [][NextPolicy]_vars

\* ================================================================ claims
IsDigit(c) == c \in 48..57

\* s has the shape YYYY-MM-DD
IsDateText(s) ==
    /\ Len(s) = 10
    /\ \A i \in {1, 2, 3, 4, 6, 7, 9, 10} : IsDigit(s[i])
    /\ s[5] = 45
    /\ s[8] = 45

\* The date YYYY-MM-DD as the number YYYYMMDD: calendar order is the order of
\* these numbers.
DateNumber(s) ==
    DigitsValue(SubSeq(s, 1, 4)) * 10000 + DigitsValue(SubSeq(s, 6, 7)) * 100
        + DigitsValue(SubSeq(s, 9, 10))

\* The vial whose window holds calendar day n: before 2025-09-13 the first,
\* from 2025-09-13 to 2025-10-28 the second, from 2025-10-29 on the third.
CalendarVial(n) ==
    IF n < 20250913 THEN vial_20240805_1
    ELSE IF n < 20251029 THEN vial_20240805_2
    ELSE vial_20241029_1

DryStockSet == {DRY_STOCK_VIALS[i] : i \in 1..Len(DRY_STOCK_VIALS)}

InjectionKeys == {InjKey(i) : i \in 1..NumInj}

\* The parsed timestamp of the injection with key k, as main() reads it.
TimestampOf(table, k) ==
    Get(parse_item(table[k]), "timestamp", PyStr(<<>>))

OkKeys == {update_calls[i].Key : i \in {j \in 1..Len(update_calls) : update_calls[j].ok}}

\* C1: for every non-empty timestamp, get_correct_vial_for_date returns one
\* of the three active vials, and for a timestamp that starts with a date
\* YYYY-MM-DD it is the vial of the half-open, inclusive-left calendar
\* interval the date lies in: before 2025-09-13 the first vial, from
\* 2025-09-13 up to but excluding 2025-10-29 the second, from 2025-10-29 on
\* the third; whatever follows the first 10 characters plays no part.
C1_HalfOpenIntervals ==
    (result.state = "returned" /\ Truthy(date_str)) =>
        LET date_prefix == Slice(date_str.v, 10)
        IN /\ result.value \in {PyStr(vial_20240805_1), PyStr(vial_20240805_2),
                                PyStr(vial_20241029_1)}
           /\ IsDateText(date_prefix) =>
                 result.value = PyStr(CalendarVial(DateNumber(date_prefix)))

\* C1 witness: "2025-09-13T08:00", exactly on the first boundary, got the
\* second vial.
C1_Witness ==
    /\ result.state = "returned"
    /\ date_str = PyStr(Boundary1 \o <<84, 48, 56, 58, 48, 48>>)
    /\ result.value = PyStr(vial_20240805_2)

\* C2: get_correct_vial_for_date never gives a dry-stock vial: not for the
\* timestamp of any injection of the table (missing, NULL, well-formed or
\* malformed), hence no change record has a dry-stock vial as correct_vial
\* and no update_item call writes one.
C2_NeverDryStock ==
    /\ \A k \in InjectionKeys \cap DOMAIN store :
          LET ts == TimestampOf(store, k)
          IN ts.ty \in {"str", "None"} =>
                get_correct_vial_for_date(ts).v \notin DryStockSet
    /\ \A i \in 1..Len(changes) : changes[i].correct_vial.v \notin DryStockSet
    /\ \A i \in 1..Len(update_calls) : update_calls[i].vialId.v \notin DryStockSet
    /\ \A k \in OkKeys : store[k]["vialId"].v \notin DryStockSet

\* C2 witness: a live run has rewritten an injection that was on a dry-stock
\* vial.
C2_Witness ==
    /\ pc = "returned"
    /\ \E k \in OkKeys :
          /\ "vialId" \in DOMAIN store0[k]
          /\ store0[k]["vialId"] = S(vial_20241029_3)

\* C9 (as claimed): get_correct_vial_for_date returns None exactly when the
\* timestamp is None, empty, or a string whose first 10 characters are not a
\* date YYYY-MM-DD.
C9_NoneIffUnparseable ==
    result.state = "returned" =>
        (result.value = None <=>
            ~(date_str.ty = "str" /\ IsDateText(Slice(date_str.v, 10))))

\* The association the table holds for the injection with key k is the one
\* the policy gives for its timestamp.
AssociationCorrect(k) ==
    /\ "vialId" \in DOMAIN store[k]
    /\ store[k]["vialId"].t = "S"
    /\ PyStr(store[k]["vialId"].v) = get_correct_vial_for_date(TimestampOf(store, k))
    /\ store[k]["vialId"].v \notin DryStockSet

\* C3 (as claimed): after a live run of main() that reaches its end, every
\* injection of the table has a non-null association, which is the vial the
\* policy gives for its timestamp and no dry-stock vial.
C3_AllAssociationsCorrect ==
    (pc = "returned" /\ ~dry_run) =>
        \A k \in InjectionKeys : AssociationCorrect(k)

\* C3 (amended): after a live run of main() that returns, every injection
\* whose timestamp is a non-empty string and whose update_item call did not
\* fail has a non-null association equal to
\* get_correct_vial_for_date(timestamp), which is no dry-stock vial; every
\* other injection (timestamp missing, NULL or empty, or update failed) is as
\* it was before the run.
C3_Amended ==
    (pc = "returned" /\ ~dry_run) =>
        \A k \in InjectionKeys :
            IF Truthy(TimestampOf(store, k)) /\ k \notin FailedKeys
              THEN AssociationCorrect(k)
              ELSE store[k] = store0[k]

\* C3 witness: a live run returned after one update that succeeded and one
\* that failed.
C3_Witness ==
    /\ pc = "returned"
    /\ ~dry_run
    /\ OkKeys # {}
    /\ FailedKeys # {}

\* The change-set of this run is known (the planner is past line 218).
Planned == pc \in {"expected", "apply", "returned"}

\* C4 (as claimed): a run on the table left by a previous live run computes
\* an empty change-set and issues no update.
C4_SecondRunEmpty ==
    (run > 1 /\ prev.pc = "returned" /\ ~prev.dry_run /\ Planned) =>
        (changes = <<>> /\ update_calls = <<>>)

\* C4 (amended): a run on the table left by a previous live run in which
\* every update succeeded (it returned with error_count = 0) computes an
\* empty change-set and issues no update.
C4_Amended ==
    (run > 1 /\ prev.pc = "returned" /\ ~prev.dry_run /\ prev.failed = {}
        /\ Planned) =>
        (changes = <<>> /\ update_calls = <<>> /\ store = store0)

\* C4 witness: the previous live run changed injections, none failed, and
\* this run has returned with an empty change-set.
C4_Witness ==
    /\ run > 1
    /\ prev.pc = "returned"
    /\ ~prev.dry_run
    /\ prev.changed # {}
    /\ prev.failed = {}
    /\ pc = "returned"
    /\ changes = <<>>

\* C5 (as claimed): a dry run issues no update_item call, leaves the table as
\* it was, and, once its change-set is computed, ends without error.
C5_DryRunNoWriteNoError ==
    dry_run =>
        /\ update_calls = <<>>
        /\ store = store0
        /\ changes # <<>> => pc # "raised"

\* The calls made so far are the first changes of the change-set, in order.
CallsFollowChanges ==
    /\ Len(update_calls) <= Len(changes)
    /\ \A i \in 1..Len(update_calls) :
          /\ update_calls[i].Key = UpdateKey(changes[i])
          /\ update_calls[i].vialId = format_dynamo_value(changes[i].correct_vial)

\* C6: in a live run the update_item calls are the changes of the change-set,
\* each once and in order; a failed call does not end the run (the run never
\* ends by an exception once it has begun to apply); every successful call
\* has taken effect in the table and every failed one has left its record as
\* it was; success_count and error_count count the successful and the failed
\* calls, and at the end they add up to the size of the change-set.
C6_PartialFailureIsolation ==
    /\ CallsFollowChanges
    /\ update_calls # <<>> => pc \in {"apply", "returned"}
    /\ success_count = Cardinality({i \in 1..Len(update_calls) : update_calls[i].ok})
    /\ error_count = Cardinality({i \in 1..Len(update_calls) : ~update_calls[i].ok})
    /\ \A i \in 1..Len(update_calls) :
          LET call == update_calls[i]
          IN IF call.ok
               THEN /\ store[call.Key]["vialId"] = call.vialId
                    /\ store[call.Key]["updatedAt"] = call.updatedAt
               ELSE store[call.Key] = store0[call.Key]
    /\ (pc = "returned" /\ ~dry_run /\ changes # <<>>) =>
          /\ Len(update_calls) = Len(changes)
          /\ success_count + error_count = Len(changes)

\* C6 witness: a live run returned whose first update failed and whose second
\* succeeded.
C6_Witness ==
    /\ pc = "returned"
    /\ Len(update_calls) = 2
    /\ ~update_calls[1].ok
    /\ update_calls[2].ok
    /\ success_count = 1
    /\ error_count = 1

\* Every injection of the table, parsed, in table order.
AllInjections ==
    LET all == PageItems(store, INJECTION, 1, Len(TableOrder))
    IN [i \in 1..Len(all) |-> parse_item(all[i])]

\* C7: when a page fetch of either scan fails, the run ends with that
\* exception: scan_all_items hands main() nothing of the scan that failed,
\* no change-set is computed, no update_item call is issued and the table is
\* as it was.
C7_ScanFailureAborts ==
    exc = "scan" =>
        /\ pc = "raised"
        /\ items = <<>>
        /\ injections \in {<<>>, AllInjections}
        /\ vials = <<>>
        /\ changes = <<>>
        /\ update_calls = <<>>
        /\ store = store0

\* C7 witness: the scan of the vials failed after the scan of the injections
\* had returned its pages.
C7_Witness ==
    /\ exc = "scan"
    /\ pc = "raised"
    /\ Len(injections) = NumInj

\* C8 (as claimed, for timestamps that are missing, NULL or strings): such a
\* timestamp never makes the run end by an exception of its own (only a
\* failed scan does), and a live run that returns has attempted every change.
C8_BadTimestampNeverCrashes ==
    (\A k \in InjectionKeys : TimestampOf(store, k).ty \in {"str", "None"}) =>
        /\ pc = "raised" => exc = "scan"
        /\ (pc = "returned" /\ ~dry_run) => Len(update_calls) = Len(changes)

\* C10: the run writes only to corrected injections: every update_item call
\* has the key of an injection record of the change-set; the table has the
\* same keys as before the run; a record that was updated has vialId and
\* updatedAt set and every other attribute as before; every other record
\* (injection or vial) is as it was.
C10_WriteFootprint ==
    /\ DOMAIN store = DOMAIN store0
    /\ \A i \in 1..Len(update_calls) :
          /\ update_calls[i].Key \in ChangeKeys
          /\ update_calls[i].Key \in InjectionKeys
          /\ store0[update_calls[i].Key]["entityType"] = S(INJECTION)
    /\ \A k \in DOMAIN store :
          IF k \in OkKeys
            THEN /\ DOMAIN store[k] = DOMAIN store0[k] \cup {"vialId", "updatedAt"}
                 /\ \A a \in DOMAIN store0[k] \ {"vialId", "updatedAt"} :
                       store[k][a] = store0[k][a]
            ELSE store[k] = store0[k]

\* C10 witness: a live run returned having updated one injection and left
\* another injection out of its change-set.
C10_Witness ==
    /\ pc = "returned"
    /\ OkKeys # {}
    /\ InjectionKeys \ ChangeKeys # {}

\* The change-set of this run has been computed (line 218 is past).
ChangeSetComputed == Planned \/ exc = "TypeError:239"

\* Injection i of the scan needs a change: the policy gives a vial for its
\* timestamp, and its association is null, a dry-stock vial, or another vial.
NeedsFix(i) ==
    LET correct == get_correct_vial_for_date(Get(injections[i], "timestamp", None))
        current == Get(injections[i], "vialId", None)
    IN /\ correct # None
       /\ \/ current = None
          \/ current.v \in DryStockSet
          \/ current # correct

\* The position in the scan of the n-th injection that needs a change.
NthToFix(n) ==
    CHOOSE i \in 1..Len(injections) :
        NeedsFix(i) /\ Cardinality({j \in 1..i : NeedsFix(j)}) = n

\* C11: the change-set holds one record for each scanned injection that has
\* a policy-computable vial and whose association is null, a dry-stock vial
\* or not the policy's vial, and none for any other; the records are in the
\* order of the scan; each carries the key of its injection, its previous
\* association ('NULL' for none) and the policy's vial.
C11_ChangeSetExact ==
    ChangeSetComputed =>
        /\ Len(changes) = Cardinality({i \in 1..Len(injections) : NeedsFix(i)})
        /\ \A n \in 1..Len(changes) :
              LET inj == injections[NthToFix(n)]
                  current == Get(inj, "vialId", None)
              IN /\ changes[n].PK = inj["PK"]
                 /\ changes[n].SK = inj["SK"]
                 /\ changes[n].current_vial =
                        (IF current = None THEN PyStr(NULLText) ELSE current)
                 /\ changes[n].correct_vial =
                        get_correct_vial_for_date(Get(inj, "timestamp", None))

\* C11 witness: of two scanned injections that both need a change, the
\* second is on a dry-stock vial with timestamp "2025-11-05T09:00" and is in
\* the change-set, after the first, with the third vial as correct.
C11_Witness ==
    /\ ChangeSetComputed
    /\ Len(changes) = 2
    /\ changes[1].SK = injections[1]["SK"]
    /\ changes[2].SK = injections[2]["SK"]
    /\ changes[2].current_vial = PyStr(vial_20241029_3)
    /\ changes[2].timestamp =
          PyStr(<<50, 48, 50, 53, 45, 49, 49, 45, 48, 53, 84, 48, 57, 58, 48, 48>>)
    /\ changes[2].correct_vial = PyStr(vial_20241029_1)

\* The vial the table associates the injection with key k with; None when
\* it has none.
AssociationOf(table, k) == Get(parse_item(table[k]), "vialId", None)

\* The number of injections the table associates with vial.
ActualCount(vial) ==
    Cardinality({k \in InjectionKeys : AssociationOf(store, k) = vial})

\* C14: when the policy gives a vial for every injection and every update
\* of a live run succeeded, then after the run the number of injections the
\* table associates with each vial is the count the run printed for that vial
\* as 'expected distribution after fix', and no injection is associated with
\* a vial that report does not list.
C14_ExpectedIsActual ==
    (/\ pc = "returned"
     /\ ~dry_run
     /\ update_calls # <<>>
     /\ error_count = 0
     /\ \A i \in 1..Len(injections) :
           get_correct_vial_for_date(Get(injections[i], "timestamp", None)) # None) =>
        /\ \A vial \in DOMAIN expected : expected[vial].count = ActualCount(vial)
        /\ \A k \in InjectionKeys : AssociationOf(store, k) \in DOMAIN expected

\* C14 witness: a live run whose updates all succeeded has left two
\* injections on one vial, as its expected distribution said.
C14_Witness ==
    /\ pc = "returned"
    /\ ~dry_run
    /\ update_calls # <<>>
    /\ error_count = 0
    /\ \E vial \in DOMAIN expected :
          expected[vial].count = 2 /\ ActualCount(vial) = 2

\* The key and the policy's vial of each record of the change-set.
PlannedUpdates ==
    {[Key |-> UpdateKey(changes[i]),
      vialId |-> format_dynamo_value(changes[i].correct_vial)] : i \in 1..Len(changes)}

\* C15: a run on the table a previous live run left computes a change-set
\* that holds exactly the injections whose update failed in that run, each
\* once and with the vial that run had computed for it; and a live run that
\* returns without a failed update, whatever runs came before it, leaves every
\* injection on the association one failure-free run on the first table
\* leaves it on.
C15_ConvergesAfterFailures ==
    /\ (run > 1 /\ prev.pc = "returned" /\ ~prev.dry_run /\ ChangeSetComputed) =>
          /\ PlannedUpdates = prev.failed_plan
          /\ Len(changes) = Cardinality(prev.failed_plan)
    /\ (pc = "returned" /\ ~dry_run /\ FailedKeys = {}) =>
          \A k \in InjectionKeys : AssociationOf(store, k) = prev.image[k]

\* C15 witness: the first live run returned with a failed update; the second
\* live run has applied its change-set, the failed updates, without failure.
C15_Witness ==
    /\ run = 2
    /\ prev.pc = "returned"
    /\ ~prev.dry_run
    /\ prev.failed # {}
    /\ pc = "returned"
    /\ ~dry_run
    /\ FailedKeys = {}
    /\ PlannedUpdates = prev.failed_plan
    /\ Len(update_calls) = Len(changes)
    /\ \A k \in InjectionKeys : AssociationOf(store, k) = prev.image[k]

\* The update_item calls of this run made after the other client's write, on
\* the record it wrote, that succeeded.
CallsOverExternal ==
    {i \in 1..Len(update_calls) :
        /\ ext_write.done
        /\ ext_write.calls < i
        /\ update_calls[i].Key = ext_write.Key
        /\ update_calls[i].ok}

\* C12: an update is made whatever the record holds by then. When another
\* client has written a record between the scan and the record's update, the
\* update is still the one planned from the scan (the scanned association as
\* the previous one, the policy's vial as the new one), it succeeds, and the
\* record then holds the vial of the update, not the other client's.
C12_LastWriterWins ==
    /\ CallsFollowChanges
    /\ \A i \in CallsOverExternal :
          /\ changes[i].current_vial =
                 LET scanned == AssociationOf(store0, ext_write.Key)
                 IN IF Truthy(scanned) THEN scanned ELSE PyStr(NULLText)
          /\ update_calls[i].vialId = format_dynamo_value(changes[i].correct_vial)
          /\ store[ext_write.Key]["vialId"] = update_calls[i].vialId
          /\ store[ext_write.Key]["vialId"] # ExternalVialId

\* C12 witness: the run has returned after an update that succeeded on the
\* record the other client had written before it.
C12_Witness ==
    /\ pc = "returned"
    /\ CallsOverExternal # {}
    /\ \A i \in CallsOverExternal :
          /\ store0[ext_write.Key] # store[ext_write.Key]
          /\ store[ext_write.Key]["vialId"] = update_calls[i].vialId

\* The Items of a sequence of exchanges, one page after the other.
RECURSIVE ConcatItems(_)
ConcatItems(ps) ==
    IF ps = <<>> THEN <<>> ELSE Head(ps).Items \o ConcatItems(Tail(ps))

LastPage == pages[Len(pages)]

\* The scan_all_items call the pages belong to has returned what the pages
\* hold, parsed by main(), and the pages hold every entry of the table with
\* that entityType once, in table order.
ReturnedPages(T, parsed) ==
    /\ pages # <<>>
    /\ pages[1].entity_type = T
    /\ LastPage.LastEvaluatedKey = 0
    /\ parsed = [i \in 1..Len(ConcatItems(pages)) |-> parse_item(ConcatItems(pages)[i])]
    /\ ConcatItems(pages) = PageItems(store, T, 1, Len(TableOrder))

\* C13: scan_all_items asks for the first page without a start key and for
\* each later page with the LastEvaluatedKey of the page before; while every
\* page so far carried a LastEvaluatedKey it has gathered the concatenation of
\* the pages' Items in page order, empty pages included, and goes on; it
\* returns, with that concatenation, at the first page that carries none.
C13_ScanFollowsPages ==
    /\ \A i \in 1..Len(pages) :
          /\ pages[i].entity_type = pages[1].entity_type
          /\ pages[i].ExclusiveStartKey =
                 IF i = 1 THEN 0 ELSE pages[i - 1].LastEvaluatedKey
          /\ i < Len(pages) => pages[i].LastEvaluatedKey # 0
    /\ (Scanning /\ ExclusiveStartKey > 0) =>
          /\ pages # <<>>
          /\ pages[1].entity_type = entity_type
          /\ LastPage.LastEvaluatedKey = ExclusiveStartKey
          /\ items = ConcatItems(pages)
    /\ (pc = "scan_injections" /\ ExclusiveStartKey = 0) => pages = <<>> /\ items = <<>>
    /\ (pc = "scan_vials" /\ ExclusiveStartKey = 0) =>
          items = <<>> /\ ReturnedPages(INJECTION, injections)
    /\ pc = "plan" => ReturnedPages(VIAL, vials)
    /\ (pages # <<>> /\ LastPage.LastEvaluatedKey = 0) =>
          ~(Scanning /\ ExclusiveStartKey > 0)

\* C13 witness: the scan of the injections has returned a non-empty list
\* after three pages, the first of them empty.
C13_Witness ==
    /\ pc = "scan_vials"
    /\ ExclusiveStartKey = 0
    /\ Len(pages) = 3
    /\ pages[1].Items = <<>>
    /\ pages[2].Items # <<>>
    /\ injections # <<>>
    /\ Len(injections) = Len(pages[2].Items) + Len(pages[3].Items)

====
